---- MODULE Spec2Model ----
(***************************************************************************)
(* Model of the smoothie TUI session controller (src/tui/bubble.go):       *)
(* the Bubble state machine (NewBubble, Init, Update, View), loadConfig,   *)
(* and SessionHandler with its background refresher goroutine.             *)
(***************************************************************************)
EXTENDS Integers, Sequences, FiniteSets, TLC

VARIABLES
    proc,          \* process: "init" | "serving" | "fatal" | "panicked"
    appCfg,        \* SessionHandler's captured variable appCfg (NilConfig if nil)
    appCfgWrites,  \* every value written to appCfg so far (unsynchronised variable)
    cfgCount,      \* number of Config values allocated by loadConfig
    lastTick,      \* history: outcome of the refresher's last loop iteration
    lastLoad,      \* history: the last loadConfig call, what failed in it and its result
    conn,          \* per connection: "none" | "rejected" | "tui"
    bubble,        \* per connection: the *Bubble (NoBubble before it is built)
    cmds,          \* per connection: commands running in goroutines
    inbox,         \* per connection: messages returned by commands, not yet handled
    ended,         \* per connection: the program's event loop has returned
    last,          \* history: the last Update call of the connection
    lastResize,    \* history: the last geometry applied to the connection
    frame,         \* history: the last frame rendered for the connection
    atAccept,      \* history: the value of appCfg when the connection was accepted
    pty            \* history: what the connection's session reported when accepted

vars == <<proc, appCfg, appCfgWrites, cfgCount, lastTick, lastLoad, conn, bubble, cmds,
          inbox, ended, last, lastResize, frame, atAccept, pty>>

srvVars == <<proc, appCfg, appCfgWrites, cfgCount, lastTick, lastLoad>>
sesVars == <<conn, bubble, cmds, inbox, ended, last, lastResize, frame, atAccept, pty>>

Nil == "nil"      \* a nil error
None == 0 - 1     \* no panel

(* ---- bounds ---------------------------------------------------------- *)
MaxSessions == 1
MaxConfigs == 2
MaxLoads == 2

Sessions == 1..MaxSessions

\* two connections served side by side, and every connection of the model
Pair == {1, 2}
Conns == Sessions \cup Pair

(* ---- sessionState (iota) --------------------------------------------- *)
startState == 0
errorState == 1
loadedState == 2
quittingState == 3
quitState == 4

(* ---- input domains ---------------------------------------------------- *)
\* ssh.Window values a pty or a resize can carry
Windows == {[Width |-> 80, Height |-> 24], [Width |-> 120, Height |-> 40]}
NoWindow == [Width |-> 0, Height |-> 0]

\* key names as returned by tea.KeyMsg.String()
Keys == {"q", "ctrl+c", "tab", "down", "enter"}

\* MenuEntry values (Name, Note, Repo)
Entry(name, repo) == [Name |-> name, Note |-> "", Repo |-> repo]

\* contents of config.json: text that json.Unmarshal rejects, or a document
BadJSON == [wellFormed |-> FALSE, name |-> "", menu |-> <<>>]
DemoDoc == [wellFormed |-> TRUE, name |-> "Demo",
            menu |-> <<Entry("Home", "repo1"), Entry("Docs", "repo2")>>]
BareDoc == [wellFormed |-> TRUE, name |-> "Bare", menu |-> <<>>]
Docs == {BadJSON, DemoDoc, BareDoc}

\* outcomes of rs.GetRepo("config") and of cr.LatestFile("config.json")
RepoResults == {"ok", "err"}
FileResults(D) == {[err |-> TRUE, doc |-> BadJSON]} \cup
                  {[err |-> FALSE, doc |-> d] : d \in D}

(* ---- Config and loadConfig -------------------------------------------- *)
\* A *Config is a record; id is the identity of the allocation, 0 the nil pointer.
NilConfig == [id |-> 0, Name |-> "", Menu |-> <<>>, RepoSource |-> Nil]
IsNilConfig(cfg) == cfg.id = 0

\* json.Unmarshal([]byte(cs), cfg): fills the tagged fields of cfg
Unmarshal(doc, cfg) ==
    IF doc.wellFormed
    THEN [err |-> Nil, cfg |-> [cfg EXCEPT !.Name = doc.name, !.Menu = doc.menu]]
    ELSE [err |-> "bad json", cfg |-> cfg]

\* mutation: after a failed Unmarshal the Config is returned along with the error
loadConfigPartial(id, repoRes, fileRes) ==
    LET cfg == [id |-> id, Name |-> "", Menu |-> <<>>, RepoSource |-> "rs"]
        um  == Unmarshal(fileRes.doc, cfg)
    IN  IF repoRes = "err"
        THEN [cfg |-> NilConfig, err |-> "cannot load config repo"]
        ELSE IF fileRes.err
        THEN [cfg |-> NilConfig, err |-> "cannot load config.json"]
        ELSE IF um.err # Nil
        THEN [cfg |-> um.cfg, err |-> "bad json in config.json"]
        ELSE [cfg |-> um.cfg, err |-> Nil]

\* loadConfig(rs), with the outcomes of the two data source calls as inputs;
\* id is the identity of the Config it allocates
loadConfig(id, repoRes, fileRes) ==
    LET cfg == [id |-> id, Name |-> "", Menu |-> <<>>, RepoSource |-> "rs"]
        um  == Unmarshal(fileRes.doc, cfg)
    IN  IF repoRes = "err"
        THEN [cfg |-> NilConfig, err |-> "cannot load config repo"]
        ELSE IF fileRes.err
        THEN [cfg |-> NilConfig, err |-> "cannot load config.json"]
        ELSE IF um.err # Nil
        THEN [cfg |-> NilConfig, err |-> "bad json in config.json"]
        ELSE [cfg |-> um.cfg, err |-> Nil]

\* which call of loadConfig fails for these outcomes ("ok" if none does)
LoadCause(repoRes, fileRes) ==
    IF repoRes = "err" THEN "repo"
    ELSE IF fileRes.err THEN "file"
    ELSE IF ~fileRes.doc.wellFormed THEN "json"
    ELSE "ok"

NoLoad == [cause |-> "none", name |-> "", cfg |-> NilConfig, err |-> Nil]
Load(repoRes, fileRes, r) ==
    [cause |-> LoadCause(repoRes, fileRes),
     name |-> IF LoadCause(repoRes, fileRes) = "ok" THEN fileRes.doc.name ELSE "",
     cfg |-> r.cfg, err |-> r.err]

(* ---- SessionHandler: start-up and the refresher goroutine -------------- *)
NoTick == [kind |-> "none", loaded |-> FALSE, before |-> NilConfig, cfg |-> NilConfig]

\* SessionHandler up to the return of the handler closure
SessionHandlerStart(defaultErr, repoRes, fileRes) ==
    /\ proc = "init"
    /\ IF defaultErr
       THEN \* log.Fatalf("cannot create config repo")
            /\ proc' = "fatal"
            /\ UNCHANGED <<appCfg, appCfgWrites, cfgCount, lastLoad>>
       ELSE LET r == loadConfig(cfgCount + 1, repoRes, fileRes)
            IN  \* a load error is only logged (log.Printf)
                /\ lastLoad' = Load(repoRes, fileRes, r)
                /\ appCfg' = r.cfg
                /\ appCfgWrites' = {r.cfg}
                /\ cfgCount' = IF r.err = Nil THEN cfgCount + 1 ELSE cfgCount
                /\ proc' = "serving"
    /\ UNCHANGED <<lastTick, sesVars>>

\* mutation: the continue after a failed loadConfig is missing
RefreshTickNoContinue(reposErr, repoRes, fileRes) ==
    /\ proc = "serving"
    /\ IF reposErr
       THEN /\ lastTick' = [kind |-> "reposErr", loaded |-> FALSE,
                            before |-> appCfg, cfg |-> NilConfig]
            /\ UNCHANGED <<appCfg, appCfgWrites, cfgCount, lastLoad>>
       ELSE LET r == loadConfig(cfgCount + 1, repoRes, fileRes)
            IN  IF r.err # Nil
                THEN /\ lastTick' = [kind |-> "cfgErr", loaded |-> TRUE,
                                     before |-> appCfg, cfg |-> r.cfg]
                     /\ lastLoad' = Load(repoRes, fileRes, r)
                     /\ appCfg' = r.cfg
                     /\ appCfgWrites' = appCfgWrites \cup {r.cfg}
                     /\ UNCHANGED cfgCount
                ELSE /\ cfgCount < MaxConfigs
                     /\ lastLoad' = Load(repoRes, fileRes, r)
                     /\ appCfg' = r.cfg
                     /\ appCfgWrites' = appCfgWrites \cup {r.cfg}
                     /\ cfgCount' = cfgCount + 1
                     /\ lastTick' = [kind |-> "ok", loaded |-> TRUE,
                                     before |-> appCfg, cfg |-> r.cfg]
    /\ UNCHANGED <<proc, sesVars>>

\* one iteration of the refresher's for loop
RefreshTick(reposErr, repoRes, fileRes) ==
    /\ proc = "serving"
    /\ IF reposErr
       THEN \* rs.LoadRepos() failed: log, continue
            /\ lastTick' = [kind |-> "reposErr", loaded |-> FALSE,
                            before |-> appCfg, cfg |-> NilConfig]
            /\ UNCHANGED <<appCfg, appCfgWrites, cfgCount, lastLoad>>
       ELSE LET r == loadConfig(cfgCount + 1, repoRes, fileRes)
            IN  IF r.err # Nil
                THEN \* log, continue
                     /\ lastTick' = [kind |-> "cfgErr", loaded |-> TRUE,
                                     before |-> appCfg, cfg |-> r.cfg]
                     /\ lastLoad' = Load(repoRes, fileRes, r)
                     /\ UNCHANGED <<appCfg, appCfgWrites, cfgCount>>
                ELSE /\ cfgCount < MaxConfigs
                     /\ lastLoad' = Load(repoRes, fileRes, r)
                     /\ appCfg' = r.cfg
                     /\ appCfgWrites' = appCfgWrites \cup {r.cfg}
                     /\ cfgCount' = cfgCount + 1
                     /\ lastTick' = [kind |-> "ok", loaded |-> TRUE,
                                     before |-> appCfg, cfg |-> r.cfg]
    /\ UNCHANGED <<proc, sesVars>>

(* ---- messages and commands ---------------------------------------------- *)
\* tea.Msg values: one record shape, the fields a type does not have are zero
Msg(type, key, err, w, h, i) ==
    [type |-> type, key |-> key, err |-> err, Width |-> w, Height |-> h, Index |-> i]
KeyMsg(k) == Msg("KeyMsg", k, "", 0, 0, 0)
ErrMsg(e) == Msg("errMsg", "", e, 0, 0, 0)
WindowMsg == Msg("windowMsg", "", "", 0, 0, 0)
WindowSizeMsg(w) == Msg("WindowSizeMsg", "", "", w.Width, w.Height, 0)
SelectedMsg(i) == Msg("SelectedMsg", "", "", 0, 0, i)
ActiveMsg(i) == Msg("ActiveMsg", "", "", 0, 0, i)
NoMsg == Msg("none", "", "", 0, 0, 0)

\* tea.Cmd values: name, and the repository and number it was built with
Cmd(name, repo, n) == [name |-> name, repo |-> repo, n |-> n]
QuitCmd == Cmd("Quit", "", 0)
WindowChangesCmd == Cmd("windowChangesCmd", "", 0)
SetupCmd == Cmd("setupCmd", "", 0)
EmitSelected(i) == Cmd("emitSelected", "", i)
EmitActive(i) == Cmd("emitActive", "", i)

(* ---- the two panels (boxes) ---------------------------------------------- *)
\* a tea.Model in a box: nil, the selection bubble or the commits bubble
\* n entries and a cursor (selection); the number and repository of the latest load
\* request, the content shown and the number of the request it came from (commits)
Model(kind, n, repo) ==
    [kind |-> kind, n |-> n, cursor |-> 0, req |-> 0, want |-> repo, from |-> 0,
     content |-> repo]
NilModel == Model("nil", 0, "")
SelectionBubble(n) == Model("selection", n, "")
CommitsBubble(repo) == Model("commits", 0, repo)

\* mutation: the selector confirms the entry under the cursor even when it has none
selectionUpdateEmptyConfirm(p, msg) ==
    IF msg.type = "KeyMsg" /\ msg.key = "down" /\ p.cursor + 1 < p.n
    THEN [m |-> [p EXCEPT !.cursor = p.cursor + 1], cmds |-> {EmitActive(p.cursor + 1)}]
    ELSE IF msg.type = "KeyMsg" /\ msg.key = "enter"
    THEN [m |-> p, cmds |-> {EmitSelected(p.cursor)}]
    ELSE [m |-> p, cmds |-> {}]

\* selection.Bubble.Update: the cursor moves within the entries, and confirming an
\* entry emits SelectedMsg; moving emits ActiveMsg; no entries, no event
selectionUpdate(p, msg) ==
    IF msg.type = "KeyMsg" /\ msg.key = "down" /\ p.cursor + 1 < p.n
    THEN [m |-> [p EXCEPT !.cursor = p.cursor + 1], cmds |-> {EmitActive(p.cursor + 1)}]
    ELSE IF msg.type = "KeyMsg" /\ msg.key = "enter" /\ p.n > 0
    THEN [m |-> p, cmds |-> {EmitSelected(p.cursor)}]
    ELSE [m |-> p, cmds |-> {}]

\* commits.Bubble.Update: the displayed content changes only when a load arrives
commitsUpdate(p, msg) == [m |-> p, cmds |-> {}]

\* boxes[i].Update(msg), dispatched on the model in the box
boxUpdate(p, msg) ==
    IF p.kind = "selection" THEN selectionUpdate(p, msg) ELSE commitsUpdate(p, msg)

(* ---- Bubble ---------------------------------------------------------------- *)
NoBubble ==
    [config |-> NilConfig, state |-> startState, error |-> "", width |-> 0,
     height |-> 0, repoSource |-> Nil, repoMenu |-> <<>>,
     boxes |-> <<NilModel, NilModel>>, activeBox |-> 0]

\* mutation: width and height of the window are taken the wrong way round
NewBubbleTurned(cfg, sCfg) ==
    [config |-> cfg, state |-> startState, error |-> "", width |-> sCfg.Height,
     height |-> sCfg.Width, repoSource |-> cfg.RepoSource, repoMenu |-> <<>>,
     boxes |-> <<NilModel, NilModel>>, activeBox |-> 0]

\* NewBubble(cfg, sCfg) for a cfg that is not nil (a nil cfg panics, see SessionAccept)
NewBubble(cfg, sCfg) ==
    [config |-> cfg, state |-> startState, error |-> "", width |-> sCfg.Width,
     height |-> sCfg.Height, repoSource |-> cfg.RepoSource, repoMenu |-> <<>>,
     boxes |-> <<NilModel, NilModel>>, activeBox |-> 0]

\* mutation: Init does not start windowChangesCmd
BubbleInitSetupOnly == {SetupCmd}

\* Bubble.Init: tea.Batch(b.windowChangesCmd, b.setupCmd)
BubbleInit == {WindowChangesCmd, SetupCmd}

\* b.getRepoCmd(name): a load request to the viewer, which numbers its requests
getRepoCmd(b, name) ==
    LET n == b.boxes[2].req + 1
    IN  [b |-> [b EXCEPT !.boxes[2].req = n, !.boxes[2].want = name],
         cmd |-> Cmd("getRepoCmd", name, n)]

UpdateResult(b, cs, fwd, panic) == [b |-> b, cmds |-> cs, fwd |-> fwd, panic |-> panic]

\* mutation: the boxes get the message whatever b.state is
UpdateForwardAlways(b, msg, cs) ==
    LET u == boxUpdate(b.boxes[b.activeBox + 1], msg)
    IN  UpdateResult([b EXCEPT !.boxes[b.activeBox + 1] = u.m],
                     cs \cup u.cmds, b.activeBox, FALSE)

\* the tail of Update: hand msg to the focused box when loaded
UpdateForward(b, msg, cs) ==
    IF b.state = loadedState
    THEN LET u == boxUpdate(b.boxes[b.activeBox + 1], msg)
         IN  UpdateResult([b EXCEPT !.boxes[b.activeBox + 1] = u.m],
                          cs \cup u.cmds, b.activeBox, FALSE)
    ELSE UpdateResult(b, cs, None, FALSE)

\* mutation: the quit keys are not handled
onQuitIgnored(b) == UpdateResult(b, {}, None, FALSE)

\* mutation: the quit keys fall out of the switch like tab does
onQuitFallsThrough(b) == UpdateForward(b, KeyMsg("q"), {QuitCmd})

\* case "q", "ctrl+c": return b, tea.Quit
onQuit(b) == UpdateResult(b, {QuitCmd}, None, FALSE)

\* mutation: the focus index is clamped, not wrapped
onTabClamped(b) == [b EXCEPT !.activeBox = IF b.activeBox + 1 > 1 THEN 1 ELSE b.activeBox + 1]

\* case "tab"
onTab(b) == [b EXCEPT !.activeBox = (b.activeBox + 1) % 2]

\* mutation: an error ends the program
onErrQuits(b, msg) ==
    UpdateResult([b EXCEPT !.error = msg.err, !.state = errorState], {QuitCmd}, None, FALSE)

\* case errMsg: return b, nil
onErr(b, msg) ==
    UpdateResult([b EXCEPT !.error = msg.err, !.state = errorState], {}, None, FALSE)

\* mutation: the height is not stored
onWindowSizeWidthOnly(b, msg) == [b EXCEPT !.width = msg.Width]

\* case tea.WindowSizeMsg
onWindowSize(b, msg) == [b EXCEPT !.width = msg.Width, !.height = msg.Height]

\* mutation: the load is requested for the entry's Name and the focus stays
onSelectedByName(b, msg) == getRepoCmd(b, b.repoMenu[msg.Index + 1].Name)

\* case selection.SelectedMsg (the index is within b.repoMenu)
onSelected(b, msg) == getRepoCmd([b EXCEPT !.activeBox = 1], b.repoMenu[msg.Index + 1].Repo)

\* case selection.ActiveMsg (the index is within b.repoMenu)
onActive(b, msg) == getRepoCmd(b, b.repoMenu[msg.Index + 1].Repo)

\* Bubble.Update(msg): the new Bubble, the batch of commands returned, the box msg
\* was handed to (None if none), and whether the call panics
Update(b, msg) ==
    CASE msg.type = "KeyMsg" /\ msg.key \in {"q", "ctrl+c"} -> onQuit(b)
      [] msg.type = "KeyMsg" /\ msg.key = "tab" -> UpdateForward(onTab(b), msg, {})
      [] msg.type = "errMsg" -> onErr(b, msg)
      [] msg.type = "windowMsg" -> UpdateForward(b, msg, {WindowChangesCmd})
      [] msg.type = "WindowSizeMsg" -> UpdateForward(onWindowSize(b, msg), msg, {})
      [] msg.type = "SelectedMsg" ->
           IF msg.Index + 1 > Len(b.repoMenu)
           THEN UpdateResult(b, {}, None, TRUE)
           ELSE UpdateForward(onSelected(b, msg).b, msg, {onSelected(b, msg).cmd})
      [] msg.type = "ActiveMsg" ->
           IF msg.Index + 1 > Len(b.repoMenu)
           THEN UpdateResult(b, {}, None, TRUE)
           ELSE UpdateForward(onActive(b, msg).b, msg, {onActive(b, msg).cmd})
      [] OTHER -> UpdateForward(b, msg, {})

(* ---- View -------------------------------------------------------------------- *)
horizontalPadding == 2
boxLeftWidth == 25
boxRightWidth == 80

\* viewForBox(i, width): the style chosen and what the box shows
viewForBox(b, i, width) ==
    [active |-> (i = b.activeBox), width |-> width,
     kind |-> b.boxes[i + 1].kind, cursor |-> b.boxes[i + 1].cursor,
     content |-> b.boxes[i + 1].content]

NoBox == [active |-> FALSE, width |-> 0, kind |-> "nil", cursor |-> 0, content |-> ""]

\* Bubble.View(): the header, and the body chosen by b.state
View(b) ==
    [headerWidth |-> b.width - horizontalPadding,
     header |-> b.config.Name,
     body |-> IF b.state = loadedState THEN "boxes"
              ELSE IF b.state = errorState THEN "Bummer"
              ELSE "Doing something weird",
     text |-> IF b.state = errorState THEN b.error ELSE "",
     n |-> IF b.state \in {loadedState, errorState} THEN 0 ELSE b.state,
     lb |-> IF b.state = loadedState THEN viewForBox(b, 0, boxLeftWidth) ELSE NoBox,
     rb |-> IF b.state = loadedState THEN viewForBox(b, 1, boxRightWidth) ELSE NoBox]

NoFrame == [view |-> View(NoBubble), geometry |-> NoWindow]

NoUpdate == [msg |-> NoMsg, fwd |-> None, cmds |-> {}, focus |-> 0, state |-> startState]

(* ---- the handler closure returned by SessionHandler --------------------------- *)
\* len(s.Command()) # 0, and the active flag of s.Pty(), which is read only
\* when there is no command
NoPty == [hasCommand |-> FALSE, active |-> FALSE]
Pty(hasCommand, active) ==
    [hasCommand |-> hasCommand, active |-> ~hasCommand /\ active]

\* func(s ssh.Session): cfg is the value the handler's read of appCfg returns. The
\* refresher writes appCfg without synchronisation, so the read may return any value
\* written so far.
SessionAccept(s, hasCommand, active, w, cfg) ==
    /\ proc = "serving"
    /\ conn[s] = "none"
    /\ \A o \in Conns : o < s => conn[o] # "none"
    /\ cfg \in appCfgWrites
    /\ IF hasCommand \/ ~active
       THEN \* return nil, nil
            /\ conn' = [conn EXCEPT ![s] = "rejected"]
            /\ pty' = [pty EXCEPT ![s] = Pty(hasCommand, active)]
            /\ UNCHANGED <<proc, bubble, cmds, frame, lastResize, atAccept>>
       ELSE IF IsNilConfig(cfg)
       THEN \* NewBubble reads cfg.RepoSource of a nil cfg
            /\ proc' = "panicked"
            /\ UNCHANGED <<conn, bubble, cmds, frame, lastResize, atAccept, pty>>
       ELSE /\ conn' = [conn EXCEPT ![s] = "tui"]
            /\ bubble' = [bubble EXCEPT ![s] = NewBubble(cfg, w)]
            /\ cmds' = [cmds EXCEPT ![s] = BubbleInit]
            /\ frame' = [frame EXCEPT ![s] = [view |-> View(NewBubble(cfg, w)), geometry |-> w]]
            /\ lastResize' = [lastResize EXCEPT ![s] = w]
            /\ atAccept' = [atAccept EXCEPT ![s] = appCfg]
            /\ pty' = [pty EXCEPT ![s] = Pty(hasCommand, active)]
            /\ UNCHANGED proc
    /\ UNCHANGED <<appCfg, appCfgWrites, cfgCount, lastTick, lastLoad, inbox, ended, last>>

(* ---- the program's event loop --------------------------------------------------- *)
Running(s) == proc = "serving" /\ conn[s] = "tui" /\ ~ended[s]

\* the message an emitting command returns
EmittedMsg(c) == IF c.name = "emitSelected" THEN SelectedMsg(c.n) ELSE ActiveMsg(c.n)
Emitted(cs) == {EmittedMsg(c) : c \in {d \in cs : d.name \in {"emitSelected", "emitActive"}}}
Started(cs) == {c \in cs : c.name \in {"windowChangesCmd", "getRepoCmd"}}
PendingLoads(ms) == Cardinality({m \in ms : m.type \in {"SelectedMsg", "ActiveMsg"}})

\* mutation: the handler gives every connection the same Bubble
HandleShared(s, msg, rest, geometry) ==
    LET r == Update(bubble[s], msg)
    IN  IF r.panic
        THEN /\ proc' = "panicked"
             /\ UNCHANGED <<appCfg, appCfgWrites, cfgCount, lastTick, lastLoad, sesVars>>
        ELSE /\ Emitted(r.cmds) \cap rest = {}
             /\ r.b.boxes[2].req + PendingLoads(rest \cup Emitted(r.cmds)) <= MaxLoads
             /\ bubble' = [o \in Conns |-> IF conn[o] = "tui" THEN r.b ELSE bubble[o]]
             /\ cmds' = [cmds EXCEPT ![s] = @ \cup Started(r.cmds)]
             /\ inbox' = [inbox EXCEPT ![s] = rest \cup Emitted(r.cmds)]
             /\ ended' = [ended EXCEPT ![s] = QuitCmd \in r.cmds]
             /\ last' = [last EXCEPT ![s] = [msg |-> msg, fwd |-> r.fwd, cmds |-> r.cmds,
                                             focus |-> bubble[s].activeBox,
                                             state |-> bubble[s].state]]
             /\ frame' = [frame EXCEPT ![s] = [view |-> View(r.b), geometry |-> geometry]]
             /\ lastResize' = [lastResize EXCEPT ![s] = geometry]
             /\ UNCHANGED <<srvVars, conn, atAccept, pty>>

\* One turn of the loop: Update(msg), the returned commands started (tea.Quit ends
\* the loop, a panel's emitting command returns its message), then View rendered.
\* rest is the inbox without msg, geometry the last geometry applied.
Handle(s, msg, rest, geometry) ==
    LET r == Update(bubble[s], msg)
    IN  IF r.panic
        THEN /\ proc' = "panicked"
             /\ UNCHANGED <<appCfg, appCfgWrites, cfgCount, lastTick, lastLoad, sesVars>>
        ELSE /\ Emitted(r.cmds) \cap rest = {}
             /\ r.b.boxes[2].req + PendingLoads(rest \cup Emitted(r.cmds)) <= MaxLoads
             /\ bubble' = [bubble EXCEPT ![s] = r.b]
             /\ cmds' = [cmds EXCEPT ![s] = @ \cup Started(r.cmds)]
             /\ inbox' = [inbox EXCEPT ![s] = rest \cup Emitted(r.cmds)]
             /\ ended' = [ended EXCEPT ![s] = QuitCmd \in r.cmds]
             /\ last' = [last EXCEPT ![s] = [msg |-> msg, fwd |-> r.fwd, cmds |-> r.cmds,
                                             focus |-> bubble[s].activeBox,
                                             state |-> bubble[s].state]]
             /\ frame' = [frame EXCEPT ![s] = [view |-> View(r.b), geometry |-> geometry]]
             /\ lastResize' = [lastResize EXCEPT ![s] = geometry]
             /\ UNCHANGED <<srvVars, conn, atAccept, pty>>

\* a key read from the session
KeyPress(s, k) ==
    /\ Running(s)
    /\ Handle(s, KeyMsg(k), inbox[s], lastResize[s])

\* a tea.WindowSizeMsg
Resize(s, w) ==
    /\ Running(s)
    /\ Handle(s, WindowSizeMsg(w), inbox[s], w)

\* a message returned by a command
Deliver(s, m) ==
    /\ Running(s)
    /\ m \in inbox[s]
    /\ Handle(s, m, inbox[s] \ {m}, lastResize[s])

(* ---- commands running in their goroutines ----------------------------------------- *)
\* a command of a program whose loop has returned is abandoned: nothing is applied
Abandon(s, c) ==
    /\ cmds' = [cmds EXCEPT ![s] = @ \ {c}]
    /\ UNCHANGED <<srvVars, conn, bubble, inbox, ended, last, lastResize, frame, atAccept, pty>>

\* b.setupCmd: loads the menu of the configuration and the first repository into
\* the boxes, and the session is loaded; a failure is an errMsg
setupCmd(b) ==
    [b EXCEPT !.repoMenu = b.config.Menu,
              !.boxes = <<SelectionBubble(Len(b.config.Menu)),
                          CommitsBubble(IF Len(b.config.Menu) > 0
                                        THEN b.config.Menu[1].Repo ELSE "")>>,
              !.state = loadedState]

SetupCmdDone(s, ok) ==
    /\ proc = "serving" /\ conn[s] = "tui"
    /\ SetupCmd \in cmds[s]
    /\ IF ended[s]
       THEN Abandon(s, SetupCmd)
       ELSE /\ cmds' = [cmds EXCEPT ![s] = @ \ {SetupCmd}]
            /\ bubble' = [bubble EXCEPT ![s] = IF ok THEN setupCmd(@) ELSE @]
            /\ inbox' = [inbox EXCEPT ![s] = @ \cup {IF ok THEN NoMsg ELSE ErrMsg("setup")}]
            /\ UNCHANGED <<srvVars, conn, ended, last, lastResize, frame, atAccept, pty>>

\* mutation: the result of any load is shown, whichever request it answers
getRepoDoneLastWins(b, c, res) ==
    IF res = "fatal"
    THEN b
    ELSE [b EXCEPT !.boxes[2].content = IF res = "ok" THEN c.repo ELSE "not found",
                   !.boxes[2].from = c.n]

\* the command built by b.getRepoCmd, when its load returns: the viewer shows the
\* result of its latest request only; res is "ok", "notfound" or "fatal"
getRepoDone(b, c, res) ==
    IF c.n # b.boxes[2].req \/ res = "fatal"
    THEN b
    ELSE [b EXCEPT !.boxes[2].content = IF res = "ok" THEN c.repo ELSE "not found",
                   !.boxes[2].from = c.n]

GetRepoCmdDone(s, c, res) ==
    /\ proc = "serving" /\ conn[s] = "tui"
    /\ c \in cmds[s] /\ c.name = "getRepoCmd"
    /\ IF ended[s]
       THEN Abandon(s, c)
       ELSE /\ cmds' = [cmds EXCEPT ![s] = @ \ {c}]
            /\ bubble' = [bubble EXCEPT ![s] = getRepoDone(@, c, res)]
            /\ inbox' = [inbox EXCEPT ![s] =
                            @ \cup {IF res = "fatal" /\ c.n = bubble[s].boxes[2].req
                                    THEN ErrMsg(c.repo) ELSE NoMsg}]
            /\ UNCHANGED <<srvVars, conn, ended, last, lastResize, frame, atAccept, pty>>

\* b.windowChangesCmd, when the session's window channel delivers w: the geometry
\* is stored and windowMsg returned
windowChangesCmd(b, w) == [b EXCEPT !.width = w.Width, !.height = w.Height]

WindowChangesCmdDone(s, w) ==
    /\ Running(s)
    /\ WindowChangesCmd \in cmds[s]
    /\ cmds' = [cmds EXCEPT ![s] = @ \ {WindowChangesCmd}]
    /\ bubble' = [bubble EXCEPT ![s] = windowChangesCmd(@, w)]
    /\ inbox' = [inbox EXCEPT ![s] = @ \cup {WindowMsg}]
    /\ lastResize' = [lastResize EXCEPT ![s] = w]
    /\ UNCHANGED <<srvVars, conn, ended, last, frame, atAccept, pty>>

(* ---- specification -------------------------------------------------------------------- *)
Init ==
    /\ proc = "init"
    /\ appCfg = NilConfig
    /\ appCfgWrites = {}
    /\ cfgCount = 0
    /\ lastLoad = NoLoad
    /\ lastTick = NoTick
    /\ conn = [s \in Conns |-> "none"]
    /\ bubble = [s \in Conns |-> NoBubble]
    /\ cmds = [s \in Conns |-> {}]
    /\ inbox = [s \in Conns |-> {}]
    /\ ended = [s \in Conns |-> FALSE]
    /\ last = [s \in Conns |-> NoUpdate]
    /\ lastResize = [s \in Conns |-> NoWindow]
    /\ frame = [s \in Conns |-> NoFrame]
    /\ atAccept = [s \in Conns |-> NilConfig]
    /\ pty = [s \in Conns |-> NoPty]

\* after SessionHandler has returned with a configuration loaded
InitServing ==
    /\ proc = "serving"
    /\ \E d \in {DemoDoc, BareDoc} :
          LET fr == [err |-> FALSE, doc |-> d]
          IN  /\ appCfg = loadConfig(1, "ok", fr).cfg
              /\ lastLoad = Load("ok", fr, loadConfig(1, "ok", fr))
    /\ appCfgWrites = {appCfg}
    /\ cfgCount = 1
    /\ lastTick = NoTick
    /\ conn = [s \in Conns |-> "none"]
    /\ bubble = [s \in Conns |-> NoBubble]
    /\ cmds = [s \in Conns |-> {}]
    /\ inbox = [s \in Conns |-> {}]
    /\ ended = [s \in Conns |-> FALSE]
    /\ last = [s \in Conns |-> NoUpdate]
    /\ lastResize = [s \in Conns |-> NoWindow]
    /\ frame = [s \in Conns |-> NoFrame]
    /\ atAccept = [s \in Conns |-> NilConfig]
    /\ pty = [s \in Conns |-> NoPty]

Start(D) == \E d \in BOOLEAN, rr \in RepoResults, fr \in FileResults(D) :
                SessionHandlerStart(d, rr, fr)
Tick(D) == \E e \in BOOLEAN, rr \in RepoResults, fr \in FileResults(D) :
               RefreshTick(e, rr, fr)
Accept(S) == \E s \in S, hc \in BOOLEAN, a \in BOOLEAN, w \in Windows, cfg \in appCfgWrites :
                 SessionAccept(s, hc, a, w, cfg)
Key(S, K) == \E s \in S, k \in K : KeyPress(s, k)
WindowSize(S) == \E s \in S, w \in Windows : Resize(s, w)
Message(S) == \E s \in S : \E m \in inbox[s] : Deliver(s, m)
SetupDone(S) == \E s \in S, ok \in BOOLEAN : SetupCmdDone(s, ok)
LoadDone(S) == \E s \in S : \E c \in cmds[s], res \in {"ok", "notfound", "fatal"} :
                   GetRepoCmdDone(s, c, res)
WindowChange(S) == \E s \in S, w \in Windows : WindowChangesCmdDone(s, w)

\* One session under every input, the configuration fixed.
Next ==
    \/ Accept({1})
    \/ Key({1}, Keys)
    \/ WindowSize({1})
    \/ Message({1})
    \/ SetupDone({1})
    \/ LoadDone({1})
    \/ WindowChange({1})

Spec == InitServing /\ [][Next]_vars

\* The process from its start: the refresher and the sessions it serves, whose
\* users do nothing but quit.
ServerKeys == {"q"}
ServerDocs == {BadJSON, DemoDoc}

NextServer ==
    \/ Start(ServerDocs)
    \/ Tick(ServerDocs)
    \/ Accept(Sessions)
    \/ Key(Sessions, ServerKeys)
    \/ Message(Sessions)
    \/ SetupDone(Sessions)

SpecServer == Init /\ [][NextServer]_vars

(* ---- properties ------------------------------------------------------------------------ *)
Tui == {s \in Sessions : conn[s] = "tui"}

\* C1: after any sequence of resizes the stored width and height are those of the
\* last resize, and every frame is rendered with the geometry that was the latest
\* when it was rendered; the frame that follows a resize message uses its dimensions.
C1_GeometryIsLastResize ==
    \A s \in Tui :
        /\ bubble[s].width = lastResize[s].Width
        /\ bubble[s].height = lastResize[s].Height
        /\ frame[s].view.headerWidth = frame[s].geometry.Width - horizontalPadding
        /\ last[s].msg.type = "WindowSizeMsg" =>
              frame[s].geometry = [Width |-> last[s].msg.Width, Height |-> last[s].msg.Height]

\* a resize message has been handled in a loaded session and rendered
C1_Witness ==
    \E s \in Tui :
        /\ last[s].msg = WindowSizeMsg([Width |-> 120, Height |-> 40])
        /\ bubble[s].state = loadedState
        /\ bubble[s].width = 120 /\ bubble[s].height = 40
        /\ frame[s].view.headerWidth = 120 - horizontalPadding

\* C2: the focus index is 0 or 1 in every state, and two presses of tab in a row
\* bring it back to where it was.
C2_FocusInRange ==
    \A s \in Tui :
        /\ bubble[s].activeBox \in {0, 1}
        /\ Update(Update(bubble[s], KeyMsg("tab")).b, KeyMsg("tab")).b.activeBox
              = bubble[s].activeBox

\* tab has been pressed with the focus on the second box, and the focus is on the first
C2_Witness ==
    \E s \in Tui :
        /\ last[s].msg = KeyMsg("tab")
        /\ last[s].focus = 1
        /\ bubble[s].activeBox = 0

QuitKeys == {KeyMsg("q"), KeyMsg("ctrl+c")}

\* C3: a tab key advances the focus index modulo 2 and is handed to neither box.
C3_TabNotForwarded ==
    \A s \in Tui :
        last[s].msg = KeyMsg("tab") =>
            /\ bubble[s].activeBox = (last[s].focus + 1) % 2
            /\ last[s].fwd = None

\* C4: the loop ends, tea.Quit is returned, or the state is quittingState or
\* quitState only when the message just handled is a quit key.
C4_NoQuitWithoutQuitKey ==
    \A s \in Tui :
        (\/ ended[s]
         \/ QuitCmd \in last[s].cmds
         \/ bubble[s].state \in {quittingState, quitState})
            => last[s].msg \in QuitKeys

\* keys, a resize, panel events and an error have been handled, and the session runs
C4_Witness ==
    \E s \in Tui :
        /\ ~ended[s]
        /\ bubble[s].state = errorState
        /\ bubble[s].boxes[2].req > 0
        /\ bubble[s].boxes[1].cursor > 0
        /\ bubble[s].width # frame[s].view.headerWidth + horizontalPadding
        /\ last[s].msg = KeyMsg("tab")

\* C5: a refresher iteration in which LoadRepos or loadConfig fails leaves appCfg as
\* it was (after a LoadRepos failure loadConfig is not called) and the process keeps
\* serving; an iteration in which both succeed makes appCfg the Config just loaded.
C5_FailedTickKeepsSnapshot ==
    [][/\ lastTick'.kind \in {"reposErr", "cfgErr"} => appCfg' = lastTick'.before
       /\ lastTick'.kind = "reposErr" => ~lastTick'.loaded
       /\ lastTick'.kind = "ok" =>
             /\ appCfg' = lastTick'.cfg
             /\ ~IsNilConfig(appCfg')
             /\ appCfg'.id # lastTick'.before.id
       /\ lastTick' # lastTick => proc' = "serving"]_vars

\* a tick has replaced the snapshot loaded at start-up, and a later tick failed
C5_Witness ==
    /\ appCfg.id = 2
    /\ lastTick.kind = "cfgErr"
    /\ lastTick.before = appCfg

\* C6: a session's configuration is, for its whole life, the snapshot that was
\* published when it was created.
C6_SessionHasSnapshotOfItsCreation ==
    \A s \in Tui : bubble[s].config = atAccept[s]

\* C7: the handler serves only if the configuration was loaded at start-up, so no
\* session is ever built from a nil configuration.
C7_NoServingWithoutConfig ==
    proc \in {"serving", "panicked"} => NilConfig \notin appCfgWrites

LoadCmds(cs) == {c \in cs : c.name = "getRepoCmd"}

\* C8: in loadedState, handling SelectedMsg with index i puts the focus on box 1
\* and returns the load command for repoMenu[i].Repo; handling ActiveMsg with index
\* i returns the same load command and leaves the focus index as it was.
C8_SelectedLoadsAndFocuses ==
    \A s \in Tui :
        LET u == last[s] IN
        /\ u.msg.type = "SelectedMsg" /\ u.state = loadedState =>
              /\ bubble[s].activeBox = 1
              /\ {c.repo : c \in LoadCmds(u.cmds)} = {bubble[s].repoMenu[u.msg.Index + 1].Repo}
        /\ u.msg.type = "ActiveMsg" /\ u.state = loadedState =>
              /\ bubble[s].activeBox = u.focus
              /\ {c.repo : c \in LoadCmds(u.cmds)} = {bubble[s].repoMenu[u.msg.Index + 1].Repo}

\* SelectedMsg with index 1 has been handled with the focus on the selector, and the
\* load of "repo2" is in flight
C8_Witness ==
    \E s \in Tui :
        /\ last[s].msg = SelectedMsg(1)
        /\ last[s].state = loadedState
        /\ last[s].focus = 0
        /\ bubble[s].activeBox = 1
        /\ \E c \in LoadCmds(cmds[s]) : c.repo = "repo2"

C10_OnlyLatestLoadShown ==
    [][\A s \in Sessions :
          LET v == bubble[s].boxes[2]
              w == bubble'[s].boxes[2]
          IN  /\ w.from <= w.req
              /\ last'[s].msg.type \in {"SelectedMsg", "ActiveMsg"} =>
                    w.want = bubble'[s].repoMenu[last'[s].msg.Index + 1].Repo
              /\ v.kind = "commits" /\ (w.content # v.content \/ w.from # v.from) =>
                    /\ w.from = w.req
                    /\ w.content \in {w.want, "not found"}]_vars

\* two loads were requested before either returned; the second has returned and is
\* shown while the first is still in flight
C10_Witness ==
    \E s \in Tui :
        /\ bubble[s].boxes[2].req = 2
        /\ bubble[s].boxes[2].from = 2
        /\ bubble[s].boxes[2].content = bubble[s].boxes[2].want
        /\ \E c \in LoadCmds(cmds[s]) : c.n = 1 /\ c.repo # bubble[s].boxes[2].want

\* C11: a session whose state is errorState stays in errorState, and there a message
\* other than a quit key schedules no getRepoCmd, is handed to no box and leaves
\* the focus index as it was.
C11_ErrorStateOnlyQuits ==
    \A s \in Tui :
        last[s].state = errorState =>
            /\ bubble[s].state = errorState
            /\ last[s].msg \notin QuitKeys =>
                  /\ LoadCmds(last[s].cmds) = {}
                  /\ last[s].fwd = None
                  /\ bubble[s].activeBox = last[s].focus

\* C12: a message reaches a box only in loadedState, and the frame shows the boxes
\* only in loadedState: in startState it is the placeholder, in errorState the
\* error text; a box that setupCmd has not filled is neither rendered nor updated.
C12_BoxesOnlyWhenLoaded ==
    \A s \in Tui :
        /\ last[s].fwd # None =>
              /\ last[s].state = loadedState
              /\ bubble[s].boxes[last[s].fwd + 1] # NilModel
        /\ bubble[s].state = loadedState => NilModel \notin {bubble[s].boxes[1], bubble[s].boxes[2]}
        /\ View(bubble[s]).body = "boxes" <=> bubble[s].state = loadedState
        /\ View(bubble[s]).body = "boxes" =>
              /\ View(bubble[s]).lb.kind = "selection"
              /\ View(bubble[s]).rb.kind = "commits"
        /\ bubble[s].state = startState =>
              /\ View(bubble[s]).body = "Doing something weird"
              /\ View(bubble[s]).lb = NoBox /\ View(bubble[s]).rb = NoBox
        /\ bubble[s].state = errorState =>
              /\ View(bubble[s]).body = "Bummer"
              /\ View(bubble[s]).text = bubble[s].error
              /\ View(bubble[s]).lb = NoBox /\ View(bubble[s]).rb = NoBox
        /\ frame[s].view.body = "boxes" =>
              /\ frame[s].view.lb.kind = "selection"
              /\ frame[s].view.rb.kind = "commits"

\* a key has been handled before setupCmd returned: no box got it, and the frame
\* is the placeholder
C12_Witness ==
    \E s \in Tui :
        /\ bubble[s].state = startState
        /\ bubble[s].boxes = <<NilModel, NilModel>>
        /\ last[s].msg = KeyMsg("down")
        /\ last[s].fwd = None
        /\ frame[s].view.body = "Doing something weird"

LiveKeys == {"q", "tab"}

\* One session whose user changes the focus, resizes the terminal and quits.
\* The loop of a running program receives every message that a command has
\* returned: the goroutine of the command waits in the channel's queue of senders.
NextLive ==
    \/ Accept({1})
    \/ Key({1}, LiveKeys)
    \/ WindowSize({1})
    \/ Message({1})
    \/ SetupDone({1})
    \/ WindowChange({1})

SpecLive == InitServing /\ [][NextLive]_vars /\ WF_vars(Deliver(1, WindowMsg))

\* the resize subscription of session s is outstanding / its notification waits
Subscribed(s) == WindowChangesCmd \in cmds[s]
Notified(s) == WindowMsg \in inbox[s]

\* C13: from Init until the loop ends, in every state of the session, either
\* windowChangesCmd is outstanding or its one windowMsg waits to be handled, never
\* both and never neither; a waiting windowMsg is in the end handled and the
\* command started again; and while the command waits, keys are still handled.
C13_AlwaysOneSubscription ==
    /\ [](\A s \in Tui : Running(s) => (Subscribed(s) # Notified(s)))
    /\ [](\A s \in Tui : Running(s) /\ Subscribed(s) =>
              ENABLED (KeyPress(s, "tab") \/ KeyPress(s, "q")))
    /\ [][\A s \in Tui : Running(s) /\ Notified(s) /\ ~Notified(s)'
              => Subscribed(s)' /\ last'[s].msg = WindowMsg]_vars
    /\ (Notified(1) ~> (Subscribed(1) \/ ~Running(1)))

\* in errorState a notification has been handled and the command waits again
C13_Witness ==
    \E s \in Tui :
        /\ Running(s)
        /\ bubble[s].state = errorState
        /\ last[s].msg = WindowMsg
        /\ last[s].state = errorState
        /\ Subscribed(s)
        /\ bubble[s].width = 120

\* C14: a tea.WindowSizeMsg handled in loadedState changes only width and height
\* (focus, state and both boxes stay as they were), and the frame rendered next
\* gives the boxes their shares of the new width: after a change of width both
\* boxes are rendered with another width than before.
C14_ResizeChangesGeometryOnly ==
    [][\A s \in Tui :
          (/\ bubble[s].state = loadedState
           /\ last'[s] # last[s]
           /\ last'[s].msg.type = "WindowSizeMsg")
          => /\ bubble'[s] = [bubble[s] EXCEPT !.width = last'[s].msg.Width,
                                               !.height = last'[s].msg.Height]
             /\ (frame[s].view.body = "boxes" /\ last'[s].msg.Width # frame[s].geometry.Width)
                   => /\ frame'[s].view.lb.width # frame[s].view.lb.width
                      /\ frame'[s].view.rb.width # frame[s].view.rb.width]_vars

\* the messages Update has a case for
GlobalMsg(m) ==
    \/ m \in QuitKeys \cup {KeyMsg("tab")}
    \/ m.type \in {"errMsg", "windowMsg", "WindowSizeMsg", "SelectedMsg", "ActiveMsg"}

\* C15: a message Update has a case for (quit, tab, resize, error, SelectedMsg,
\* ActiveMsg) is handed to no box; any other message handled in loadedState
\* is handed to the focused box and only to it, and the commands that box returns
\* are among the commands Update returns.
C15_GlobalMessagesIntercepted ==
    [][\A s \in Tui :
          last'[s] # last[s] =>
              IF GlobalMsg(last'[s].msg)
              THEN last'[s].fwd = None
              ELSE bubble[s].state = loadedState =>
                      LET a == bubble[s].activeBox
                          u == boxUpdate(bubble[s].boxes[a + 1], last'[s].msg)
                      IN  /\ last'[s].fwd = a
                          /\ bubble'[s].boxes = [bubble[s].boxes EXCEPT ![a + 1] = u.m]
                          /\ u.cmds \subseteq last'[s].cmds]_vars

\* the selector's messages that session s has handled last or has still to handle
SelectorMsgs(s) ==
    {m \in inbox[s] \cup {last[s].msg} : m.type \in {"SelectedMsg", "ActiveMsg"}}

\* C16: every SelectedMsg and ActiveMsg that is handled or waits to be handled
\* carries an index from 0 to len(repoMenu) - 1; with an empty menu there is none;
\* so b.repoMenu[msg.Index] never panics.
C16_IndexWithinMenu ==
    /\ proc # "panicked"
    /\ \A s \in Tui :
          /\ \A m \in SelectorMsgs(s) :
                /\ 0 <= m.Index /\ m.Index < Len(bubble[s].repoMenu)
                /\ ~Update(bubble[s], m).panic
          /\ Len(bubble[s].repoMenu) = 0 => SelectorMsgs(s) = {}

\* the last entry of the menu has been selected and its repository is being loaded
C16_Witness ==
    \E s \in Tui :
        /\ Len(bubble[s].repoMenu) = 2
        /\ last[s].msg = SelectedMsg(1)
        /\ \E c \in LoadCmds(last[s].cmds) : c.repo = bubble[s].repoMenu[2].Repo

PairKeys == {"q", "tab"}

\* Two connections accepted one after the other and served side by side.
NextPair ==
    \/ Accept(Pair)
    \/ Key(Pair, PairKeys)
    \/ WindowSize(Pair)
    \/ Message(Pair)
    \/ SetupDone(Pair)

SpecPair == InitServing /\ [][NextPair]_vars

\* all there is of session s: its Bubble, its commands and messages, its frame
Session(s) ==
    [conn |-> conn[s], bubble |-> bubble[s], cmds |-> cmds[s], inbox |-> inbox[s],
     ended |-> ended[s], last |-> last[s], lastResize |-> lastResize[s], frame |-> frame[s]]

\* C17: a step in which one session handles a message (or is accepted, or has a
\* command return) changes nothing of any other session: its state, focus index,
\* geometry, error, boxes, commands, messages and frame stay as they were.
C17_SessionsAreIsolated ==
    [][\A s \in Pair, o \in Pair :
          (s # o /\ Session(s)' # Session(s)) => Session(o)' = Session(o)]_vars

\* two running sessions that differ in state, focus, geometry and error
C17_Witness ==
    /\ conn[1] = "tui" /\ conn[2] = "tui"
    /\ bubble[1].state = loadedState /\ bubble[2].state = errorState
    /\ bubble[1].activeBox = 1 /\ bubble[2].activeBox = 0
    /\ bubble[1].width = 120 /\ bubble[2].width = 80
    /\ bubble[1].error = "" /\ bubble[2].error # ""
    /\ last[1].msg = KeyMsg("tab") /\ last[2].msg.type = "errMsg"
    /\ ~ended[1] /\ ~ended[2]

\* C18: "q" and "ctrl+c" are taken in startState, loadedState and errorState
\* alike: Update returns tea.Quit and nothing else, hands the key to no box and
\* leaves the Bubble as it is; the loop ends with that step and stays ended.
C18_QuitInEveryState ==
    [][\A s \in Tui :
          /\ Running(s) =>
                /\ ENABLED KeyPress(s, "q")
                /\ \A m \in QuitKeys :
                      Update(bubble[s], m) = UpdateResult(bubble[s], {QuitCmd}, None, FALSE)
          /\ (last'[s] # last[s] /\ last'[s].msg \in QuitKeys) =>
                /\ last'[s].state \in {startState, loadedState, errorState}
                /\ last'[s].cmds = {QuitCmd}
                /\ last'[s].fwd = None
                /\ bubble'[s] = bubble[s]
                /\ cmds'[s] = cmds[s]
                /\ ended'[s]
          /\ ended[s] => ended'[s]]_vars

\* a session in errorState has been quit with ctrl+c
C18_Witness ==
    \E s \in Tui :
        /\ ended[s]
        /\ last[s].msg = KeyMsg("ctrl+c")
        /\ last[s].state = errorState
        /\ last[s].cmds = {QuitCmd}
        /\ last[s].fwd = None

\* C19: loadConfig returns a Config and no error, or an error and no Config;
\* the error says which of its three steps failed (the config repository, the
\* file config.json, its JSON), each in its own words; a Config that is returned is
\* the one the document describes; and no load is attempted before the default
\* configuration has been created.
C19_LoadConfigAllOrNothing ==
    /\ lastLoad.cause # "none" => ((lastLoad.err = Nil) # IsNilConfig(lastLoad.cfg))
    /\ lastLoad.cause = "repo" => lastLoad.err = "cannot load config repo"
    /\ lastLoad.cause = "file" => lastLoad.err = "cannot load config.json"
    /\ lastLoad.cause = "json" => lastLoad.err = "bad json in config.json"
    /\ lastLoad.cause = "ok" =>
          /\ lastLoad.err = Nil
          /\ lastLoad.cfg.Name = lastLoad.name
          /\ lastLoad.cfg.RepoSource = "rs"
    /\ lastLoad.cause \in {"repo", "file", "json"} => IsNilConfig(lastLoad.cfg)
    /\ proc \in {"init", "fatal"} => lastLoad = NoLoad
    /\ \A rr \in RepoResults, fr \in FileResults(Docs) :
          LET r == loadConfig(cfgCount + 1, rr, fr)
          IN  /\ (r.err = Nil) # IsNilConfig(r.cfg)
              /\ (r.err = Nil) <=> (LoadCause(rr, fr) = "ok")

\* config.json was read but is not JSON: the load has returned its error alone
C19_Witness ==
    /\ proc = "serving"
    /\ lastLoad.cause = "json"
    /\ lastLoad.err = "bad json in config.json"
    /\ IsNilConfig(lastLoad.cfg)
    /\ cfgCount > 0

\* C20: the handler returns a Bubble only for a connection without a command whose
\* pty is active, and nil for every other connection; the Bubble it returns is in
\* startState with the focus on box 0 and the width and height of the pty's window
\* at that moment.
C20_BubbleOnlyForActivePty ==
    [][\A s \in Sessions :
          /\ conn'[s] = "tui" =>
                /\ ~pty'[s].hasCommand /\ pty'[s].active
                /\ bubble'[s] # NoBubble
          /\ conn'[s] = "rejected" =>
                /\ pty'[s].hasCommand \/ ~pty'[s].active
                /\ bubble'[s] = NoBubble /\ cmds'[s] = {}
          /\ conn'[s] = "none" => bubble'[s] = NoBubble
          /\ (conn[s] = "none" /\ conn'[s] = "tui") =>
                /\ bubble'[s].state = startState
                /\ bubble'[s].activeBox = 0
                /\ lastResize'[s] \in Windows
                /\ bubble'[s].width = lastResize'[s].Width
                /\ bubble'[s].height = lastResize'[s].Height
                /\ frame'[s].geometry = lastResize'[s]]_vars

\* a connection with an active pty of 120x40 has just been given its Bubble
C20_Witness ==
    \E s \in Sessions :
        /\ conn[s] = "tui"
        /\ pty[s] = Pty(FALSE, TRUE)
        /\ last[s] = NoUpdate
        /\ bubble[s].state = startState
        /\ bubble[s].activeBox = 0
        /\ bubble[s].width = 120 /\ bubble[s].height = 40

====
